---- MODULE Spec2Model ----
(***************************************************************************)
(* The in-memory directory tree of brig's store package                    *)
(* (src/store/directory.go): Directory objects, their aggregate size and   *)
(* xor-folded hash, the upward walk of Add/RemoveChild and the traversals. *)
(*                                                                         *)
(* Objects live in a heap `nodes` (a sequence; the index is the object's   *)
(* identity).  A *Hash is either a pointer to the Hash object of a node    *)
(* ("ptr"), a Hash object of its own holding a value ("val": EmptyHash, or *)
(* &Hash{bytes} made by FromProto), or the nil pointer ("nil").            *)
(*                                                                         *)
(* Beside the tree: the Commit objects of the version history (exercised   *)
(* by src/catfs/nodes/commit_test.go) in the heap `commits`, and the       *)
(* session handlers of the gateway (src/cmdline/handleutil.go) over `cfg`, *)
(* `userDb` and `sess`, and the connection handler of the peer server      *)
(* (src/util/ipfsutil/ipfs_test.go) over `remotes` and `conns`.  Each part *)
(* has its own specification: Spec, SpecLookup, SpecCodec and SpecDecode   *)
(* for the tree, SpecWalk for an Add / RemoveChild followed write by write *)
(* beside a reader, SpecCommit, SpecGateway, SpecPeer.                     *)
(***************************************************************************)
EXTENDS Integers, Sequences, FiniteSets, TLC

\* ---------------------------------------------------------------- bounds
InitNodes == 3     \* objects in the store at the start
MaxNew   == 1      \* objects the factory creates in one run
MaxSteps == 3      \* operations in one run
SizeBits == 4      \* width of the size counter in the model (uint64 in the source)
MaxWalk  == 5      \* iterations of the Up loop, and depth of Walk, that are followed
MaxPath  == 2      \* components of a path handed to Lookup
MaxLinks == 2      \* names, and links, of a wire message from outside
MaxDecodes == 1    \* messages from outside decoded in one run
MaxCommits == 3    \* Commit objects made in one run
MaxCommitSteps == 4  \* operations on commits in one run
MaxRequests == 3   \* requests to the gateway, and changes around it, in one run
MaxWalkOps == 2    \* calls of Add / RemoveChild followed write by write in one run
MaxConns == 2      \* connections the peer server accepts in one run
MaxCalls == 2      \* calls served on one connection

Names     == {"a", "b"}
MaxNodes  == InitNodes + MaxNew
HashBits  == MaxNodes
Digests   == 0 .. (2^HashBits - 1)
SizeMod   == 2^SizeBits
FileSizes == {1, 2}
Keys      == {1, 2, 3}

\* nodes:  the heap of File and Directory objects
\* nextID: the counter behind fs.NextID
\* hist:   the operations called so far, each with its arguments and result
\* base:   the heap at the start
VARIABLES nodes, nextID, hist, base

\* commits: the heap of Commit objects
VARIABLES commits

\* cfg:    the gateway's configuration (auth.enabled)
\* userDb: the gateway's user database, name -> user
\* sess:   what the cookie store yields for the client's "sess" cookie
VARIABLES cfg, userDb, sess

\* walk:    the position of an Add / RemoveChild whose upward walk is followed
\*          write by write
\* seen:    what a goroutine that reads the tree found at its latest read
\* locking: whether the callers hold a lock around every access of the tree
VARIABLES walk, seen, locking

tree    == <<nodes, nextID, base>>
gateway == <<cfg, userDb, sess>>
walker  == <<walk, seen, locking>>

\* remotes: the repository's remote list, each entry by the id of its public key
\* conns:   the connections the peer server accepted, each with the position
\*          of the goroutine that handles it
VARIABLES remotes, conns

peers   == <<remotes, conns>>
vars    == <<nodes, nextID, hist, base, commits, cfg, userDb, sess, walk, seen, locking,
             remotes, conns>>

\* ------------------------------------------------------------ Hash values
\* the sentinel digest of "no parent"; the identity of the combination
EmptyHash == 0

RECURSIVE XorBits(_, _, _)
XorBits(a, b, n) ==
    IF n = 0 THEN 0
    ELSE (((a % 2) + (b % 2)) % 2) + (2 * XorBits(a \div 2, b \div 2, n - 1))

\* Hash.Xor: the self-inverse, commutative combination of two digests
Xor(a, b) == XorBits(a, b, HashBits)

NilRef    == [tag |-> "nil", v |-> 0]
ValRef(h) == [tag |-> "val", v |-> h]
PtrRef(j) == [tag |-> "ptr", v |-> j]

\* the digest a non-nil *Hash currently holds
Deref(H, r) == IF r.tag = "ptr" THEN H[r.v].hash ELSE r.v

\* ------------------------------------------------------------ objects
NilMap   == [isnil |-> TRUE,  map |-> <<>>]
EmptyMap == [isnil |-> FALSE, map |-> <<>>]

\* type Directory struct
Directory(id, name, size, modTime, parent, hash, children) ==
    [kind |-> "dir", id |-> id, name |-> name, size |-> size, modTime |-> modTime,
     parent |-> parent, hash |-> hash, children |-> children, stored |-> TRUE]

\* a File: an opaque leaf whose size and digest are supplied from outside
File(id, name, size, hash) ==
    [kind |-> "file", id |-> id, name |-> name, size |-> size, modTime |-> 0,
     parent |-> NilRef, hash |-> hash, children |-> NilMap, stored |-> TRUE]

Dirs(H)  == {i \in DOMAIN H : H[i].kind = "dir"}
Files(H) == {i \in DOMAIN H : H[i].kind = "file"}

\* len(d.children)
NChildren(H, d) == Cardinality(DOMAIN H[d].children.map)

\* the digest recorded under a name of d.children
ChildDigest(H, d, n) == Deref(H, H[d].children.map[n])

SetMin(S) == CHOOSE x \in S : \A y \in S : x <= y

\* ------------------------------------------------------------ Tree Store
\* fs.NodeByHash: the object the store keeps under a digest.  An object is
\* in the store (stored) or only in memory.
NodeByHash(H, h) ==
    LET any == {i \in DOMAIN H : H[i].stored /\ H[i].hash = h}
    IN  IF h = EmptyHash \/ any = {}
        THEN [err |-> "StoreLookupFailed", node |-> 0]
        ELSE [err |-> "ok", node |-> SetMin(any)]

\* fs.DirectoryByHash: the same, failing when the object is no Directory
DirectoryByHash(H, h) ==
    LET r == NodeByHash(H, h)
    IN  IF r.err # "ok" THEN r
        ELSE IF H[r.node].kind # "dir" THEN [err |-> "TypeMismatch", node |-> 0]
        ELSE r

\* fs.NextID
NextID(n) == [err |-> "ok", id |-> n, next |-> n + 1]

\* ------------------------------------------------------------ Node interface
\* SetParent(nd): nd = 0 stands for the nil Node
SetParent(H, c, nd) ==
    [H EXCEPT ![c].parent = IF nd = 0 THEN ValRef(EmptyHash) ELSE PtrRef(nd)]

\* ------------------------------------------------------------ tree movement
\* VisitChildren(fn) with fn = child.SetParent(d), as xorHash calls it.  The
\* map is ranged over in an unspecified order: when some child does not
\* resolve, any set of resolvable children may have been visited before it.
VisitChildren(H, d) ==
    LET m    == H[d].children.map
        r(n) == DirectoryByHash(H, Deref(H, m[n]))
        good == {n \in DOMAIN m : r(n).err = "ok"}
        bad  == (DOMAIN m) \ good
        Apply(T) == [i \in DOMAIN H |->
                       IF \E n \in T : r(n).node = i
                       THEN [H[i] EXCEPT !.parent = PtrRef(d)] ELSE H[i]]
    IN  IF bad = {}
        THEN {[nodes |-> Apply(good), err |-> "ok"]}
        ELSE {[nodes |-> Apply(T), err |-> r(n).err] : T \in SUBSET good, n \in bad}

\* xorHash putting a new Hash object in place of d.hash: the entries made
\* for d keep the old object
xorHashRebind(H, d, nd) ==
    LET old(r) == IF r = PtrRef(d) THEN ValRef(H[d].hash) ELSE r
        H1 == [i \in DOMAIN H |->
                 [H[i] EXCEPT !.children.map = [n \in DOMAIN @ |-> old(@[n])]]]
    IN  VisitChildren([H1 EXCEPT ![d].hash = Xor(H[d].hash, H[nd].hash)], d)

\* d.xorHash(hash), hash being the Hash object of node nd
xorHash(H, d, nd) ==
    VisitChildren([H EXCEPT ![d].hash = Xor(H[d].hash, H[nd].hash)], d)

\* the visit closures handed to Up
AddVisit(nd, sz)    == [op |-> "add",    nd |-> nd, size |-> sz]
RemoveVisit(nd, sz) == [op |-> "remove", nd |-> nd, size |-> sz]
TraceVisit          == [op |-> "trace",  nd |-> 0,  size |-> 0]

Visit(H, curr, v) ==
    IF v.op = "add"
    THEN xorHash([H EXCEPT ![curr].size = (@ + v.size) % SizeMod], curr, v.nd)
    ELSE IF v.op = "remove"
    THEN xorHash([H EXCEPT ![curr].size = (@ - v.size) % SizeMod], curr, v.nd)
    ELSE {[nodes |-> H, err |-> "ok"]}

RECURSIVE UpFrom(_, _, _, _, _)
UpFrom(H, curr, v, fuel, visited) ==
    IF H[curr].parent.tag = "nil"
    THEN {[nodes |-> H, res |-> "ok", visited |-> visited]}
    ELSE IF fuel = 0 THEN {}
    ELSE UNION {
        IF o.err # "ok"
        THEN {[nodes |-> o.nodes, res |-> o.err, visited |-> Append(visited, curr)]}
        ELSE LET r == DirectoryByHash(o.nodes, Deref(o.nodes, o.nodes[curr].parent))
             IN  IF r.err # "ok"
                 THEN {[nodes |-> o.nodes, res |-> r.err,
                        visited |-> Append(visited, curr)]}
                 ELSE UpFrom(o.nodes, r.node, v, fuel - 1, Append(visited, curr))
        : o \in Visit(H, curr, v) }

\* Up undoing the walk when it fails
UpRollback(H, d, v) ==
    {[nodes |-> IF o.res = "ok" THEN o.nodes ELSE H, res |-> o.res, visited |-> o.visited]
        : o \in UpFrom(H, d, v, MaxWalk, <<>>)}

\* d.Up(visit): the outcomes [nodes, res, visited] of the walk
Up(H, d, v) == UpFrom(H, d, v, MaxWalk, <<>>)

\* ------------------------------------------------------------ mutation
\* Add leaving a Directory alone that has a child of that name already
AddKeepFirst(H, d, nd) ==
    IF H[d].children.isnil
    THEN {[nodes |-> H, res |-> "panic", visited |-> <<>>]}
    ELSE IF H[nd].name \in DOMAIN H[d].children.map
    THEN {[nodes |-> H, res |-> "ok", visited |-> <<>>]}
    ELSE LET m  == H[d].children.map
             n  == H[nd].name
             H1 == [H EXCEPT ![d].children.map =
                       [x \in (DOMAIN m) \cup {n} |-> IF x = n THEN PtrRef(nd) ELSE m[x]]]
         IN  UpFrom(H1, d, AddVisit(nd, H[nd].size), MaxWalk, <<>>)

\* d.Add(nd)
Add(H, d, nd) ==
    IF H[d].children.isnil
    THEN {[nodes |-> H, res |-> "panic", visited |-> <<>>]}
    ELSE LET m  == H[d].children.map
             n  == H[nd].name
             H1 == [H EXCEPT ![d].children.map =
                       [x \in (DOMAIN m) \cup {n} |-> IF x = n THEN PtrRef(nd) ELSE m[x]]]
         IN  Up(H1, d, AddVisit(nd, H[nd].size))

\* RemoveChild unsetting the child's parent before it looks the name up
RemoveChildUnsetFirst(H, d, nd) ==
    LET H1 == SetParent(H, nd, 0)
        m  == H[d].children.map
        n  == H[nd].name
    IN  IF n \notin DOMAIN m
        THEN {[nodes |-> H1, res |-> "NoSuchFile", visited |-> <<>>]}
        ELSE LET H2 == [H1 EXCEPT ![d].children.map = [x \in (DOMAIN m) \ {n} |-> m[x]]]
             IN  Up(H2, d, RemoveVisit(nd, H2[nd].size))

\* d.RemoveChild(nd)
RemoveChild(H, d, nd) ==
    LET m == H[d].children.map
        n == H[nd].name
    IN  IF n \notin DOMAIN m
        THEN {[nodes |-> H, res |-> "NoSuchFile", visited |-> <<>>]}
        ELSE LET H1 == SetParent(H, nd, 0)
                 H2 == [H1 EXCEPT ![d].children.map = [x \in (DOMAIN m) \ {n} |-> m[x]]]
             IN  Up(H2, d, RemoveVisit(nd, H2[nd].size))

\* newEmptyDirectory(fs, parent, name); mh is multihash.Sum of the path,
\* parent = 0 stands for the nil *Directory.  The new Directory "is not yet
\* present in the store"; when the store begins to resolve its digest is the
\* store's matter, so both are followed: present during parent.Add, or not.
newEmptyDirectory(H, next, parent, name, mh) ==
    LET i   == NextID(next)
        dir == Directory(i.id, name, 0, 0, NilRef, mh, NilMap)
        H1(present) == Append(H, [dir EXCEPT !.stored = present])
    IN  IF parent = 0
        THEN {[nodes |-> H1(present), res |-> "ok", visited |-> <<>>, next |-> i.next]
                : present \in BOOLEAN}
        ELSE UNION {
               {[nodes |-> IF o.res = "panic" THEN H ELSE o.nodes, res |-> o.res,
                 visited |-> o.visited, next |-> i.next]
                    : o \in Add(H1(present), parent, Len(H) + 1)}
               : present \in BOOLEAN}

\* ------------------------------------------------------------ traversal
RECURSIVE WalkFrom(_, _, _, _, _)
WalkFrom(H, node, dfs, fuel, trace) ==
    IF H[node].kind # "dir"
    THEN {[res |-> "ok", trace |-> Append(trace, node)]}
    ELSE LET m  == H[node].children.map
             t1 == IF ~dfs THEN Append(trace, node) ELSE trace
         IN  IF DOMAIN m = {}
             THEN {[res |-> "ok", trace |-> IF dfs THEN Append(t1, node) ELSE t1]}
             ELSE IF fuel = 0 THEN {}
             ELSE UNION {
                 LET r == NodeByHash(H, Deref(H, m[n]))
                 IN  IF r.err # "ok"
                     THEN {[res |-> r.err, trace |-> t1]}
                     ELSE WalkFrom(H, r.node, dfs, fuel - 1, t1)
                 : n \in DOMAIN m }

\* Walk(node, dfs, visit) with a visit that records the node and never
\* fails: the outcomes [res, trace].  The range over d.children returns
\* from inside its first iteration, whichever child the map yields first.
Walk(H, node, dfs) == WalkFrom(H, node, dfs, MaxWalk, <<>>)

\* ------------------------------------------------------------ name lookup
\* d.Child(name): the node (0: nil) and the error
Child(H, d, name) == [err |-> "ok", node |-> 0]

\* the repository paths handed to Lookup, as their components after
\* path.Clean: <<>> is "/" (or "." or ""), <<"a", "b">> is "a/b" or "/a/b"
Paths == UNION {[1 .. k -> Names] : k \in 0 .. MaxPath}

\* strings.Split(prefixSlash(path.Clean(repoPath)), "/"): the leading slash
\* yields an empty first element, and "/" alone splits into two empty ones
Elems(path) == IF path = <<>> THEN <<"", "">> ELSE <<"">> \o path

\* the loop of Lookup over elems[i ..]
RECURSIVE LookupLoop(_, _, _, _)
LookupLoop(H, curr, elems, i) ==
    IF i > Len(elems) THEN [err |-> "ok", node |-> curr]
    ELSE LET r == Child(H, curr, elems[i])
         IN  IF r.err # "ok" THEN [err |-> r.err, node |-> 0]
             ELSE IF r.node = 0 THEN [err |-> "ok", node |-> 0]
             ELSE LookupLoop(H, r.node, elems, i + 1)

\* d.Lookup(repoPath)
Lookup(H, d, path) ==
    LET elems == Elems(path)
    IN  IF Len(elems) = 1 THEN [err |-> "ok", node |-> d]
        ELSE LookupLoop(H, d, elems, 1)

\* ------------------------------------------------------------ marshalling
\* wire.Node with its wire.Directory payload
WireNode(id, name, size, timeOK, hash, parent, names, links) ==
    [id |-> id, name |-> name, size |-> size, timeOK |-> timeOK, hash |-> hash,
     parent |-> parent, names |-> names, links |-> links]

NoMessage == WireNode(0, "", 0, TRUE, EmptyHash, EmptyHash, <<>>, <<>>)

\* the orders in which a range over a map with the keys S may yield them
Orders(S) == {q \in [1 .. Cardinality(S) -> S] :
                \A i, j \in 1 .. Cardinality(S) : q[i] = q[j] => i = j}

\* d.ToProto(): the outcomes [err, msg].  Names and links are appended in
\* the one order the range over d.children yields.  Bytes() of the nil
\* parent of a Directory the factory made either yields no bytes or fails.
ToProto(H, d) ==
    LET m == H[d].children.map
        ok(par) == {[err |-> "ok",
                     msg |-> WireNode(H[d].id, H[d].name, H[d].size, TRUE, H[d].hash, par,
                                      q, [i \in DOMAIN q |-> Deref(H, m[q[i]])])]
                        : q \in Orders(DOMAIN m)}
    IN  IF H[d].parent.tag = "nil"
        THEN ok(EmptyHash) \cup {[err |-> "panic", msg |-> NoMessage]}
        ELSE ok(Deref(H, H[d].parent))

\* the loop of FromProto over pbd.GetNames(); idx counts from 0
RECURSIVE FromProtoLoop(_, _, _, _)
FromProtoLoop(dir, names, links, idx) ==
    IF idx >= Len(names) THEN [err |-> "ok", dir |-> dir]
    ELSE IF idx >= 0 /\ idx < Len(links)
    THEN [err |-> "MalformedInput", dir |-> dir]
    ELSE IF idx >= Len(links)
    THEN [err |-> "panic", dir |-> dir]
    ELSE LET m == dir.children.map
             n == names[idx + 1]
         IN  FromProtoLoop(
                [dir EXCEPT !.children.map =
                    [x \in (DOMAIN m) \cup {n} |->
                        IF x = n THEN ValRef(links[idx + 1]) ELSE m[x]]],
                names, links, idx + 1)

\* d.FromProto(pnd)
FromProto(dir, pnd) ==
    IF ~pnd.timeOK THEN [err |-> "BadModTime", dir |-> dir]
    ELSE FromProtoLoop(
            Directory(pnd.id, pnd.name, pnd.size, 0, ValRef(pnd.parent), pnd.hash, EmptyMap),
            pnd.names, pnd.links, 0)

\* d.Unmarshal of what d.Marshal made, into the empty Directory dst
RoundTrip(H, d, dst) ==
    {IF o.err # "ok" THEN [err |-> o.err, msg |-> o.msg, dir |-> dst]
     ELSE LET r == FromProto(dst, o.msg) IN [err |-> r.err, msg |-> o.msg, dir |-> r.dir]
        : o \in ToProto(H, d)}

\* &Directory{fs: fs}
ZeroDirectory == Directory(0, "", 0, 0, NilRef, EmptyHash, NilMap)

\* ------------------------------------------------------------ Commit
Stages   == {"local", "remote"}
Authors  == {"alice", "bob"}
Texts    == {"", "Hello"}
NoMarker == [with |-> "", head |-> EmptyHash]

\* type Commit struct
Commit(id, stage, index, hash, root, parent, message, author, marker, boxed) ==
    [kind |-> "commit", id |-> id, name |-> "", size |-> 0, modTime |-> 0, hash |-> hash,
     stage |-> stage, index |-> index, root |-> root, parent |-> parent,
     message |-> message, author |-> author, marker |-> marker, boxed |-> boxed]

\* &Commit{}
ZeroCommit == Commit(0, "", 0, EmptyHash, EmptyHash, EmptyHash, "", "", NoMarker, FALSE)

\* NewEmptyCommit(stage, index); mh is the digest the new object goes by
NewEmptyCommit(next, stage, index, mh) ==
    LET i == NextID(next)
    IN  [err |-> "ok", next |-> i.next,
         commit |-> Commit(i.id, stage, index, mh, EmptyHash, EmptyHash, "", "", NoMarker, FALSE)]

\* SetMergeMarker keeping a marker that is set already
SetMergeMarkerOnce(c, with, remoteHead) ==
    IF c.marker # NoMarker THEN c
    ELSE [c EXCEPT !.marker = [with |-> with, head |-> remoteHead]]

\* c.SetMergeMarker(with, remoteHead)
SetMergeMarker(c, with, remoteHead) ==
    [c EXCEPT !.marker = [with |-> with, head |-> remoteHead]]

\* c.MergeMarker()
MergeMarker(c) == <<c.marker.with, c.marker.head>>

\* BoxCommit boxing again what is boxed already
BoxCommitAgain(c, author, message) ==
    [err |-> "ok", commit |-> [c EXCEPT !.author = author, !.message = message, !.boxed = TRUE]]

\* c.BoxCommit(author, message)
BoxCommit(c, author, message) ==
    IF c.boxed THEN [err |-> "AlreadyBoxed", commit |-> c]
    ELSE [err |-> "ok",
          commit |-> [c EXCEPT !.author = author, !.message = message, !.boxed = TRUE]]

\* c.ToCapnp() and msg.Marshal(): the flat message of a Commit
CommitToCapnp(c) ==
    [id |-> c.id, name |-> c.name, size |-> c.size, modTime |-> c.modTime, hash |-> c.hash,
     stage |-> c.stage, index |-> c.index, root |-> c.root, parent |-> c.parent,
     message |-> c.message, author |-> c.author,
     markerWith |-> c.marker.with, markerHead |-> c.marker.head, boxed |-> c.boxed]

\* FromCapnp losing the merge marker
CommitFromCapnpNoMarker(dst, msg) ==
    [err |-> "ok",
     commit |-> Commit(msg.id, msg.stage, msg.index, msg.hash, msg.root, msg.parent,
                       msg.message, msg.author, dst.marker, msg.boxed)]

\* capnp.Unmarshal and c.FromCapnp(msg): overwrites dst
CommitFromCapnp(dst, msg) ==
    [err |-> "ok",
     commit |-> Commit(msg.id, msg.stage, msg.index, msg.hash, msg.root, msg.parent,
                       msg.message, msg.author,
                       [with |-> msg.markerWith, head |-> msg.markerHead], msg.boxed)]

\* the commit the store keeps under a digest (0: none)
CommitByHash(C, h) ==
    LET any == {i \in DOMAIN C : C[i].hash = h}
    IN  IF h = EmptyHash \/ any = {} THEN 0 ELSE SetMin(any)

\* the sequence index the next commit of a stage gets, not counting up
NextIndexStuck(C, stage) ==
    LET used == {C[i].index : i \in {j \in DOMAIN C : C[j].stage = stage}}
    IN  IF used = {} THEN 1 ELSE CHOOSE x \in used : \A y \in used : y <= x

\* the sequence index the next commit of a stage gets
NextIndex(C, stage) ==
    LET used == {C[i].index : i \in {j \in DOMAIN C : C[j].stage = stage}}
    IN  IF used = {} THEN 1 ELSE 1 + (CHOOSE x \in used : \A y \in used : y <= x)

\* a commit is made: a snapshot of the root digest, chained to the
\* previous commit
MakeCommit(C, next, stage, root, mh) ==
    LET o    == NewEmptyCommit(next, stage, NextIndex(C, stage), mh)
        head == IF C = <<>> THEN EmptyHash ELSE C[Len(C)].hash
    IN  [err |-> o.err, next |-> o.next,
         commits |-> Append(C, [o.commit EXCEPT !.root = root, !.parent = head])]

\* ------------------------------------------------------------ gateway
Users     == {"alice", "bob"}
Passwords == {"secret", "guess"}

\* what a handler has written to its http.ResponseWriter, call by call;
\* the status of the response is that of the first call
Write(w, code, text) == Append(w, [code |-> code, text |-> text])
Status(w) == IF w = <<>> THEN 200 ELSE w[1].code

\* http.Error(w, text, code)
HttpError(w, text, code) == Write(w, code, text)

\* jsonifyErrf(w, code, text)
jsonifyErrf(w, code, text) == Write(w, code, text)

\* jsonify(w, code, data)
jsonify(w, code, data) == Write(w, code, data)

\* a session read from the cookie, with a string under "name"
Named(userName) == [err |-> "ok", values |-> [name |-> [str |-> TRUE, v |-> userName]]]

\* the cookie does not decode: store.Get fails
BadSession == [err |-> "securecookie", values |-> <<>>]

\* userDb.Get(name)
UserDbGet(db, name) ==
    IF name \in DOMAIN db THEN [err |-> "ok", user |-> db[name]]
    ELSE [err |-> "NoSuchUser", user |-> [name |-> "", password |-> ""]]

\* getUserName(store, w, r): the name, and what it wrote
getUserName(w, s) ==
    IF s.err # "ok"
    THEN [w |-> HttpError(w, s.err, 500), name |-> ""]
    ELSE IF "name" \notin DOMAIN s.values
    THEN [w |-> w, name |-> ""]
    ELSE IF ~s.values["name"].str
    THEN [w |-> HttpError(w, "internal error", 500), name |-> ""]
    ELSE [w |-> w, name |-> s.values["name"].v]

\* setSession(store, userName, w, r); saveOK: sess.Save succeeds.  cookie:
\* whether a cookie with the full MaxAge was written to the response
setSession(w, s, userName, saveOK) ==
    IF s.err # "ok"
    THEN [w |-> HttpError(w, s.err, 500), sess |-> s, cookie |-> "none"]
    ELSE IF ~saveOK
    THEN [w |-> HttpError(w, "save", 500), sess |-> s, cookie |-> "none"]
    ELSE [w |-> w, sess |-> Named(userName), cookie |-> "renewed"]

\* clearSession(store, w, r)
clearSession(w, s, saveOK) ==
    IF s.err # "ok"
    THEN [w |-> HttpError(w, s.err, 500), sess |-> s]
    ELSE IF ~saveOK
    THEN [w |-> HttpError(w, "save", 500), sess |-> s]
    ELSE [w |-> w, sess |-> [err |-> "ok", values |-> <<>>]]

\* the handler a middleware wraps: it answers 200
SubHandler(w) == jsonify(w, 200, "sub")

\* authMiddleware.ServeHTTP letting a session pass whose user is gone
authMiddlewareNoDb(c, db, w, s) ==
    IF c.auth
    THEN LET g == getUserName(w, s)
         IN  IF g.name = ""
             THEN [w |-> jsonifyErrf(g.w, 401, "not authorized"), ran |-> FALSE, user |-> ""]
             ELSE [w |-> SubHandler(g.w), ran |-> TRUE, user |-> g.name]
    ELSE [w |-> SubHandler(w), ran |-> TRUE, user |-> ""]

\* authMiddleware.ServeHTTP(w, r): what is written, whether the wrapped
\* handler ran, and the user put into the request's context
authMiddleware(c, db, w, s) ==
    IF c.auth
    THEN LET g == getUserName(w, s)
         IN  IF g.name = ""
             THEN [w |-> jsonifyErrf(g.w, 401, "not authorized"), ran |-> FALSE, user |-> ""]
             ELSE LET u == UserDbGet(db, g.name)
                  IN  IF u.err # "ok"
                      THEN [w |-> jsonifyErrf(g.w, 401, "not authorized"), ran |-> FALSE,
                            user |-> ""]
                      ELSE [w |-> SubHandler(g.w), ran |-> TRUE, user |-> u.user.name]
    ELSE [w |-> SubHandler(w), ran |-> TRUE, user |-> ""]

\* LoginHandler.ServeHTTP taking the user the database returns under whatever name
LoginHandlerAnyName(db, w, s, req, fault) ==
    IF req.bad THEN [w |-> jsonifyErrf(w, 400, "bad json"), sess |-> s]
    ELSE IF req.username = "" \/ req.password = ""
    THEN [w |-> jsonifyErrf(w, 400, "empty password or username"), sess |-> s]
    ELSE LET u == UserDbGet(db, req.username)
         IN  IF u.err # "ok"
             THEN [w |-> jsonifyErrf(w, 403, "bad credentials"), sess |-> s]
             ELSE IF fault = "check" \/ u.user.password # req.password
             THEN [w |-> jsonifyErrf(w, 403, "bad credentials"), sess |-> s]
             ELSE LET o == setSession(w, s, u.user.name, fault # "save")
                  IN  [w |-> jsonify(o.w, 200, req.username), sess |-> o.sess]

\* LoginHandler.ServeHTTP; req.bad: the body is no JSON; fault: what fails
\* around it ("check": CheckPassword returns an error, "save": sess.Save)
LoginHandler(db, w, s, req, fault) ==
    IF req.bad THEN [w |-> jsonifyErrf(w, 400, "bad json"), sess |-> s]
    ELSE IF req.username = "" \/ req.password = ""
    THEN [w |-> jsonifyErrf(w, 400, "empty password or username"), sess |-> s]
    ELSE LET u == UserDbGet(db, req.username)
         IN  IF u.err # "ok"
             THEN [w |-> jsonifyErrf(w, 403, "bad credentials"), sess |-> s]
             ELSE IF u.user.name # req.username
             THEN [w |-> jsonifyErrf(w, 403, "bad credentials"), sess |-> s]
             ELSE IF fault = "check" \/ u.user.password # req.password
             THEN [w |-> jsonifyErrf(w, 403, "bad credentials"), sess |-> s]
             ELSE LET o == setSession(w, s, u.user.name, fault # "save")
                  IN  [w |-> jsonify(o.w, 200, req.username), sess |-> o.sess]

\* LogoutHandler.ServeHTTP
LogoutHandler(w, s, saveOK) ==
    LET g == getUserName(w, s)
    IN  IF g.name = ""
        THEN [w |-> jsonifyErrf(g.w, 400, "not logged in"), sess |-> s]
        ELSE LET o == clearSession(g.w, s, saveOK)
             IN  [w |-> jsonify(o.w, 200, "success"), sess |-> o.sess]

\* WhoamiHandler.ServeHTTP answering without saving the session again
WhoamiHandlerNoRenew(c, db, w, s, saveOK) ==
    IF c.auth
    THEN LET g == getUserName(w, s)
         IN  [w |-> jsonify(g.w, 200, g.name), sess |-> s, cookie |-> "none"]
    ELSE LET o == setSession(w, s, "anon", saveOK)
         IN  [w |-> jsonify(o.w, 200, "anon"), sess |-> o.sess, cookie |-> o.cookie]

\* WhoamiHandler.ServeHTTP; the response carries the name, is_logged_in
\* being len(name) > 0
WhoamiHandler(c, db, w, s, saveOK) ==
    IF c.auth
    THEN LET g == getUserName(w, s)
             o == IF g.name # "" THEN setSession(g.w, s, g.name, saveOK)
                  ELSE [w |-> g.w, sess |-> s, cookie |-> "none"]
         IN  [w |-> jsonify(o.w, 200, g.name), sess |-> o.sess, cookie |-> o.cookie]
    ELSE LET o == setSession(w, s, "anon", saveOK)
         IN  [w |-> jsonify(o.w, 200, "anon"), sess |-> o.sess, cookie |-> o.cookie]

\* ------------------------------------------------------------ inputs
\* the digest of the k-th object: distinct objects have distinct digests
BaseDigest(k) == 2^(k - 1)

\* How an object of the initial store came to be: a Directory made by the
\* factory without a parent ("fresh"), a Directory read back from its wire
\* message ("decoded", up = 0 for the empty parent digest, else the object
\* whose digest the message names as parent), or a File.
Birth(kind, name, size, up) == [kind |-> kind, name |-> name, size |-> size, up |-> up]

Births(k) ==
    IF k = 1
    THEN {Birth("fresh", "a", 0, 0), Birth("decoded", "a", 0, 0)}
    ELSE IF k = 2
    THEN {Birth("decoded", n, 0, 1) : n \in Names}
    ELSE {Birth("decoded", n, 0, u) : n \in Names, u \in {k - 2, k - 1}}
         \cup {Birth("fresh", n, 0, 0) : n \in Names}
         \cup {Birth("file", n, sz, 0) : n \in Names, sz \in FileSizes}

Populations == {p \in [1 .. InitNodes -> UNION {Births(k) : k \in 1 .. InitNodes}] :
                    \A k \in 1 .. InitNodes : p[k] \in Births(k)}

Born(H, b) ==
    LET k == Len(H) + 1
    IN  IF b.kind = "fresh"
        THEN (CHOOSE o \in newEmptyDirectory(H, k, 0, b.name, BaseDigest(k)) :
                    o.nodes[k].stored).nodes
        ELSE IF b.kind = "decoded"
        THEN Append(H, FromProto(ZeroDirectory,
                        WireNode(k, b.name, b.size, TRUE, BaseDigest(k),
                                 IF b.up = 0 THEN EmptyHash ELSE BaseDigest(b.up),
                                 <<>>, <<>>)).dir)
        ELSE Append(H, File(k, b.name, b.size, BaseDigest(k)))

RECURSIVE Populate(_, _)
Populate(p, k) == IF k = 0 THEN <<>> ELSE Born(Populate(p, k - 1), p[k])

\* ------------------------------------------------------------ the program
NoOp == [op |-> "init", d |-> 0, nd |-> 0, res |-> "ok", visited |-> <<>>, dfs |-> FALSE,
         path |-> <<>>, msg |-> NoMessage, out |-> ZeroDirectory, args |-> <<>>,
         w |-> <<>>, ran |-> FALSE]
steps == Len(hist)
last  == IF hist = <<>> THEN NoOp ELSE hist[Len(hist)]
Op(op, d, nd, res, visited, dfs) ==
    [NoOp EXCEPT !.op = op, !.d = d, !.nd = nd, !.res = res, !.visited = visited,
                 !.dfs = dfs]

\* the record of a name or path query on d that returned node nd (0: nil)
PathOp(op, d, path, res, nd) ==
    [NoOp EXCEPT !.op = op, !.d = d, !.nd = nd, !.res = res, !.path = path]

\* the record of a decoding of msg (made from d; 0: from outside) into out
CodecOp(op, d, msg, res, out) ==
    [NoOp EXCEPT !.op = op, !.d = d, !.res = res, !.msg = msg, !.out = out]

\* the record of an operation on the commit c
CommitOp(op, c, args, res, out) ==
    [NoOp EXCEPT !.op = op, !.d = c, !.args = args, !.res = res, !.out = out]

\* the record of a request to the gateway: what was written in reply and
\* whether a wrapped handler ran
HttpOp(op, args, w, ran) ==
    [NoOp EXCEPT !.op = op, !.args = args, !.w = w, !.ran = ran]

\* the cookie store has nothing under "sess": a new, empty session
NoSession == [err |-> "ok", values |-> <<>>]

\* no Add / RemoveChild is under way; nothing was read yet
Idle    == [phase |-> "idle", op |-> "init", d |-> 0, nd |-> 0, size |-> 0, curr |-> 0,
            visited |-> <<>>, res |-> "ok", from |-> <<>>]
NotSeen == [nodes |-> <<>>, walk |-> Idle]

Init ==
    /\ \E p \in Populations : nodes = Populate(p, InitNodes)
    /\ nextID = InitNodes + 1
    /\ hist = <<>>
    /\ base = nodes
    /\ commits = <<>>
    /\ cfg = [auth |-> TRUE] /\ userDb = <<>> /\ sess = NoSession
    /\ walk = Idle /\ seen = NotSeen /\ locking = TRUE
    /\ remotes = {} /\ conns = <<>>

DoNewEmptyDirectory ==
    /\ steps < MaxSteps
    /\ Len(nodes) < MaxNodes
    /\ \E parent \in {0} \cup Dirs(nodes), name \in Names :
         \E o \in newEmptyDirectory(nodes, nextID, parent, name, BaseDigest(Len(nodes) + 1)) :
            /\ nodes' = o.nodes
            /\ nextID' = o.next
            /\ hist' = Append(hist, Op("newEmptyDirectory", parent, Len(nodes) + 1, o.res, o.visited, FALSE))
    /\ UNCHANGED <<base, commits, gateway, walker, peers>>

DoAdd ==
    /\ steps < MaxSteps
    /\ \E d \in Dirs(nodes), nd \in DOMAIN nodes :
         \E o \in Add(nodes, d, nd) :
            /\ nodes' = o.nodes
            /\ hist' = Append(hist, Op("Add", d, nd, o.res, o.visited, FALSE))
    /\ UNCHANGED <<nextID, base, commits, gateway, walker, peers>>

DoRemoveChild ==
    /\ steps < MaxSteps
    /\ \E d \in Dirs(nodes), nd \in DOMAIN nodes :
         \E o \in RemoveChild(nodes, d, nd) :
            /\ nodes' = o.nodes
            /\ hist' = Append(hist, Op("RemoveChild", d, nd, o.res, o.visited, FALSE))
    /\ UNCHANGED <<nextID, base, commits, gateway, walker, peers>>

DoUp ==
    /\ steps < MaxSteps
    /\ \E d \in Dirs(nodes) :
         \E o \in Up(nodes, d, TraceVisit) :
            hist' = Append(hist, Op("Up", d, 0, o.res, o.visited, FALSE))
    /\ UNCHANGED <<tree, commits, gateway, walker, peers>>

DoWalk ==
    /\ steps < MaxSteps
    /\ \E n \in DOMAIN nodes, dfs \in BOOLEAN :
         \E o \in Walk(nodes, n, dfs) :
            hist' = Append(hist, Op("Walk", n, 0, o.res, o.trace, dfs))
    /\ UNCHANGED <<tree, commits, gateway, walker, peers>>

DoChild ==
    /\ steps < MaxSteps
    /\ \E d \in Dirs(nodes), name \in Names :
         LET o == Child(nodes, d, name)
         IN  hist' = Append(hist, PathOp("Child", d, <<name>>, o.err, o.node))
    /\ UNCHANGED <<tree, commits, gateway, walker, peers>>

DoLookup ==
    /\ steps < MaxSteps
    /\ \E d \in Dirs(nodes), path \in Paths :
         LET o == Lookup(nodes, d, path)
         IN  hist' = Append(hist, PathOp("Lookup", d, path, o.err, o.node))
    /\ UNCHANGED <<tree, commits, gateway, walker, peers>>

DoRoundTrip ==
    /\ steps < MaxSteps
    /\ \E d \in Dirs(nodes) :
         \E o \in RoundTrip(nodes, d, ZeroDirectory) :
            hist' = Append(hist, CodecOp("RoundTrip", d, o.msg, o.err, o.dir))
    /\ UNCHANGED <<tree, commits, gateway, walker, peers>>

\* the wire messages that reach FromProto from outside
Messages ==
    {WireNode(1, "a", 0, timeOK, BaseDigest(2), parent, names, links) :
        timeOK \in BOOLEAN, parent \in {EmptyHash, BaseDigest(1)},
        names \in UNION {[1 .. k -> Names] : k \in 0 .. MaxLinks},
        links \in UNION {[1 .. k -> {BaseDigest(3), BaseDigest(4)}] : k \in 0 .. MaxLinks}}

DoFromProto ==
    /\ steps < MaxDecodes
    /\ \E pnd \in Messages :
         LET o == FromProto(ZeroDirectory, pnd)
         IN  hist' = Append(hist, CodecOp("FromProto", 0, pnd, o.err, o.dir))
    /\ UNCHANGED <<tree, commits, gateway, walker, peers>>

\* ------------------------------------------------------------ commits
InitCommit ==
    /\ nodes = <<>> /\ nextID = 1 /\ base = <<>> /\ hist = <<>>
    /\ commits = <<>>
    /\ cfg = [auth |-> TRUE] /\ userDb = <<>> /\ sess = NoSession
    /\ walk = Idle /\ seen = NotSeen /\ locking = TRUE
    /\ remotes = {} /\ conns = <<>>

DoMakeCommit ==
    /\ steps < MaxCommitSteps
    /\ Len(commits) < MaxCommits
    /\ \E stage \in Stages, root \in {EmptyHash, BaseDigest(MaxNodes)} :
         LET o == MakeCommit(commits, nextID, stage, root, BaseDigest(Len(commits) + 1))
         IN  /\ commits' = o.commits
             /\ nextID' = o.next
             /\ hist' = Append(hist, CommitOp("NewEmptyCommit", Len(commits) + 1,
                                              <<stage, root>>, o.err, ZeroCommit))
    /\ UNCHANGED <<nodes, base, gateway, walker, peers>>

DoSetMergeMarker ==
    /\ steps < MaxCommitSteps
    /\ \E c \in DOMAIN commits, with \in Authors, head \in {BaseDigest(1), BaseDigest(2)} :
         /\ commits' = [commits EXCEPT ![c] = SetMergeMarker(@, with, head)]
         /\ hist' = Append(hist, CommitOp("SetMergeMarker", c, <<with, head>>, "ok", ZeroCommit))
    /\ UNCHANGED <<tree, gateway, walker, peers>>

DoBoxCommit ==
    /\ steps < MaxCommitSteps
    /\ \E c \in DOMAIN commits, author \in Authors, message \in Texts :
         LET o == BoxCommit(commits[c], author, message)
         IN  /\ commits' = [commits EXCEPT ![c] = o.commit]
             /\ hist' = Append(hist, CommitOp("BoxCommit", c, <<author, message>>, o.err,
                                              ZeroCommit))
    /\ UNCHANGED <<tree, gateway, walker, peers>>

DoCommitRoundTrip ==
    /\ steps < MaxCommitSteps
    /\ \E c \in DOMAIN commits :
         LET o == CommitFromCapnp(ZeroCommit, CommitToCapnp(commits[c]))
         IN  hist' = Append(hist, CommitOp("CommitRoundTrip", c, <<>>, o.err, o.commit))
    /\ UNCHANGED <<tree, commits, gateway, walker, peers>>

NextCommit ==
    \/ DoMakeCommit
    \/ DoSetMergeMarker
    \/ DoBoxCommit
    \/ DoCommitRoundTrip

SpecCommit == InitCommit /\ [][NextCommit]_vars

\* ------------------------------------------------------------ the gateway
LoginRequests ==
    {[bad |-> TRUE, username |-> "", password |-> ""]}
        \cup {[bad |-> FALSE, username |-> u, password |-> pw] :
                    u \in Users \cup {""}, pw \in Passwords \cup {""}}

InitGateway ==
    /\ nodes = <<>> /\ nextID = 1 /\ base = <<>> /\ hist = <<>>
    /\ commits = <<>>
    /\ cfg \in {[auth |-> TRUE], [auth |-> FALSE]}
    /\ \E S \in SUBSET Users : \E nm \in [S -> Users] :
          userDb = [u \in S |-> [name |-> nm[u], password |-> "secret"]]
    /\ sess = NoSession
    /\ walk = Idle /\ seen = NotSeen /\ locking = TRUE
    /\ remotes = {} /\ conns = <<>>

DoAuthRequest ==
    /\ steps < MaxRequests
    /\ LET o == authMiddleware(cfg, userDb, <<>>, sess)
       IN  hist' = Append(hist, HttpOp("AuthMiddleware", <<o.user>>, o.w, o.ran))
    /\ UNCHANGED <<tree, commits, gateway, walker, peers>>

DoLogin ==
    /\ steps < MaxRequests
    /\ \E req \in LoginRequests, fault \in {"none", "check", "save"} :
         LET o == LoginHandler(userDb, <<>>, sess, req, fault)
         IN  /\ sess' = o.sess
             /\ hist' = Append(hist, HttpOp("Login", <<req, fault>>, o.w, FALSE))
    /\ UNCHANGED <<tree, commits, cfg, userDb, walker, peers>>

DoLogout ==
    /\ steps < MaxRequests
    /\ \E saveOK \in BOOLEAN :
         LET o == LogoutHandler(<<>>, sess, saveOK)
         IN  /\ sess' = o.sess
             /\ hist' = Append(hist, HttpOp("Logout", <<saveOK>>, o.w, FALSE))
    /\ UNCHANGED <<tree, commits, cfg, userDb, walker, peers>>

DoWhoami ==
    /\ steps < MaxRequests
    /\ \E saveOK \in BOOLEAN :
         LET o == WhoamiHandler(cfg, userDb, <<>>, sess, saveOK)
         IN  /\ sess' = o.sess
             /\ hist' = Append(hist, HttpOp("Whoami", <<saveOK, o.cookie>>, o.w, FALSE))
    /\ UNCHANGED <<tree, commits, cfg, userDb, walker, peers>>

\* a user is deleted from the database
DoDeleteUser ==
    /\ steps < MaxRequests
    /\ \E u \in DOMAIN userDb :
         /\ userDb' = [x \in (DOMAIN userDb) \ {u} |-> userDb[x]]
         /\ hist' = Append(hist, HttpOp("DeleteUser", <<u>>, <<>>, FALSE))
    /\ UNCHANGED <<tree, commits, cfg, sess, walker, peers>>

\* the client sends a cookie that does not decode
DoBadCookie ==
    /\ steps < MaxRequests
    /\ sess' = BadSession
    /\ hist' = Append(hist, HttpOp("BadCookie", <<>>, <<>>, FALSE))
    /\ UNCHANGED <<tree, commits, cfg, userDb, walker, peers>>

NextGateway ==
    \/ DoAuthRequest
    \/ DoLogin
    \/ DoLogout
    \/ DoWhoami
    \/ DoDeleteUser
    \/ DoBadCookie

SpecGateway == InitGateway /\ [][NextGateway]_vars

Next ==
    \/ DoNewEmptyDirectory
    \/ DoAdd
    \/ DoRemoveChild
    \/ DoUp
    \/ DoWalk

Spec == Init /\ [][Next]_vars

\* the tree being built and queried by name
NextLookup ==
    \/ DoNewEmptyDirectory
    \/ DoAdd
    \/ DoChild
    \/ DoLookup

SpecLookup == Init /\ [][NextLookup]_vars

\* the tree being changed and its directories marshalled and read back
NextCodec ==
    \/ DoNewEmptyDirectory
    \/ DoAdd
    \/ DoRemoveChild
    \/ DoRoundTrip

SpecCodec == Init /\ [][NextCodec]_vars

\* messages from outside being decoded
SpecDecode == Init /\ [][DoFromProto]_vars

\* ------------------------------------------------------------ the peer server
\* peer.BuildFingerprint("", pubKey).PubKeyID(): the hashed form of a key
PubKeyID(pubKey) == 10 + pubKey

\* the callback Handle gives to NewAuthReadWriter: is the key of the remote
\* one of the remote list?
KnownRemote(rem, listOK, pubKey) ==
    IF ~listOK THEN "ListRemotesFailed"
    ELSE IF \E r \in rem : r = PubKeyID(pubKey) THEN "ok"
    ELSE "UnknownKey"

\* authConn.Trigger(): the handshake, which hands the key the remote proved
\* to own to the callback
Trigger(hsOK, rem, listOK, pubKey) ==
    IF ~hsOK THEN "HandshakeFailed" ELSE KnownRemote(rem, listOK, pubKey)

\* Handle serving whatever Trigger returned
HandleUnchecked(rem, c) ==
    IF ~c.ownKeyOK THEN [c EXCEPT !.pc = "dropped"]
    ELSE [c EXCEPT !.pc = "serving"]

\* handler.Handle(ctx, conn) up to rpcConn.Wait()
Handle(rem, c) ==
    IF ~c.ownKeyOK THEN [c EXCEPT !.pc = "dropped"]
    ELSE IF Trigger(c.hsOK, rem, c.listOK, c.key) # "ok" THEN [c EXCEPT !.pc = "dropped"]
    ELSE [c EXCEPT !.pc = "serving"]

InitPeer ==
    /\ nodes = <<>> /\ nextID = 1 /\ base = <<>> /\ hist = <<>>
    /\ commits = <<>>
    /\ cfg = [auth |-> TRUE] /\ userDb = <<>> /\ sess = NoSession
    /\ walk = Idle /\ seen = NotSeen /\ locking = TRUE
    /\ remotes \in SUBSET {PubKeyID(k) : k \in Keys}
    /\ conns = <<>>

\* the base server accepts a connection of a remote that owns the key `key`
DoAccept ==
    /\ Len(conns) < MaxConns
    /\ \E key \in Keys, ownKeyOK \in BOOLEAN, hsOK \in BOOLEAN, listOK \in BOOLEAN :
         conns' = Append(conns, [key |-> key, ownKeyOK |-> ownKeyOK, hsOK |-> hsOK,
                                 listOK |-> listOK, pc |-> "accepted", served |-> 0])
    /\ UNCHANGED <<tree, hist, commits, gateway, walker, remotes>>

DoHandle ==
    /\ \E i \in DOMAIN conns :
         /\ conns[i].pc = "accepted"
         /\ conns' = [conns EXCEPT ![i] = Handle(remotes, @)]
    /\ UNCHANGED <<tree, hist, commits, gateway, walker, remotes>>

\* rpcConn serves one call of the remote
DoServe ==
    /\ \E i \in DOMAIN conns :
         /\ conns[i].pc = "serving"
         /\ conns[i].served < MaxCalls
         /\ conns' = [conns EXCEPT ![i].served = @ + 1]
    /\ UNCHANGED <<tree, hist, commits, gateway, walker, remotes>>

\* rpcConn.Wait() returns and the connection is closed
DoClose ==
    /\ \E i \in DOMAIN conns :
         /\ conns[i].pc = "serving"
         /\ conns' = [conns EXCEPT ![i].pc = "closed"]
    /\ UNCHANGED <<tree, hist, commits, gateway, walker, remotes>>

NextPeer ==
    \/ DoAccept
    \/ DoHandle
    \/ DoServe
    \/ DoClose

SpecPeer == InitPeer /\ [][NextPeer]_vars

\* ------------------------------------------------------------ the walk, write by write
\* the loop condition of Up, `curr.parent != nil`, on the walker's Directory
Enter(w, H) ==
    IF H[w.curr].parent.tag = "nil"
    THEN [w EXCEPT !.phase = "idle", !.res = "ok"]
    ELSE [w EXCEPT !.phase = "size"]

\* the heap and the walker after a step; a call that returned is recorded
Moved(w, H) ==
    /\ nodes' = H
    /\ walk' = w
    /\ hist' = IF w.phase = "idle"
               THEN Append(hist, Op(w.op, w.d, w.nd, w.res, w.visited, FALSE))
               ELSE hist

\* d.Add(nd) up to the first test of the loop condition
DoBeginAdd ==
    /\ walk.phase = "idle"
    /\ steps < MaxWalkOps
    /\ \E d \in Dirs(nodes), nd \in DOMAIN nodes :
         LET w  == [Idle EXCEPT !.op = "Add", !.d = d, !.nd = nd, !.curr = d,
                                !.size = nodes[nd].size, !.from = nodes]
             m  == nodes[d].children.map
             n  == nodes[nd].name
             H1 == [nodes EXCEPT ![d].children.map =
                       [x \in (DOMAIN m) \cup {n} |-> IF x = n THEN PtrRef(nd) ELSE m[x]]]
         IN  IF nodes[d].children.isnil
             THEN Moved([w EXCEPT !.res = "panic"], nodes)
             ELSE Moved(Enter(w, H1), H1)
    /\ UNCHANGED <<nextID, base, commits, gateway, seen, locking, peers>>

\* d.RemoveChild(nd) up to the first test of the loop condition
DoBeginRemoveChild ==
    /\ walk.phase = "idle"
    /\ steps < MaxWalkOps
    /\ \E d \in Dirs(nodes), nd \in DOMAIN nodes :
         LET m  == nodes[d].children.map
             n  == nodes[nd].name
             H1 == SetParent(nodes, nd, 0)
             H2 == [H1 EXCEPT ![d].children.map = [x \in (DOMAIN m) \ {n} |-> m[x]]]
             w  == [Idle EXCEPT !.op = "RemoveChild", !.d = d, !.nd = nd, !.curr = d,
                                !.size = H2[nd].size, !.from = nodes]
         IN  IF n \notin DOMAIN m
             THEN Moved([w EXCEPT !.res = "NoSuchFile"], nodes)
             ELSE Moved(Enter(w, H2), H2)
    /\ UNCHANGED <<nextID, base, commits, gateway, seen, locking, peers>>

\* parent.size += nodeSize, or -= nodeSize
DoVisitSize ==
    /\ walk.phase = "size"
    /\ Len(walk.visited) < MaxWalk
    /\ nodes' = [nodes EXCEPT ![walk.curr].size =
                    IF walk.op = "Add" THEN (@ + walk.size) % SizeMod
                                       ELSE (@ - walk.size) % SizeMod]
    /\ walk' = [walk EXCEPT !.phase = "hash"]
    /\ UNCHANGED <<nextID, hist, base, commits, gateway, seen, locking, peers>>

\* d.hash.Xor(hash), the first statement of xorHash
DoVisitHash ==
    /\ walk.phase = "hash"
    /\ nodes' = [nodes EXCEPT ![walk.curr].hash = Xor(@, nodes[walk.nd].hash)]
    /\ walk' = [walk EXCEPT !.phase = "children"]
    /\ UNCHANGED <<nextID, hist, base, commits, gateway, seen, locking, peers>>

\* d.VisitChildren(child.SetParent(d)), the rest of xorHash
DoVisitChildren ==
    /\ walk.phase = "children"
    /\ \E o \in VisitChildren(nodes, walk.curr) :
         IF o.err # "ok"
         THEN Moved([walk EXCEPT !.phase = "idle", !.res = o.err,
                                 !.visited = Append(@, walk.curr)], o.nodes)
         ELSE Moved([walk EXCEPT !.phase = "next"], o.nodes)
    /\ UNCHANGED <<nextID, base, commits, gateway, seen, locking, peers>>

\* curr, err = d.fs.DirectoryByHash(curr.parent), and the loop condition again
DoUpNext ==
    /\ walk.phase = "next"
    /\ LET r == DirectoryByHash(nodes, Deref(nodes, nodes[walk.curr].parent))
           v == Append(walk.visited, walk.curr)
       IN  IF r.err # "ok"
           THEN Moved([walk EXCEPT !.phase = "idle", !.res = r.err, !.visited = v], nodes)
           ELSE Moved(Enter([walk EXCEPT !.curr = r.node, !.visited = v], nodes), nodes)
    /\ UNCHANGED <<nextID, base, commits, gateway, seen, locking, peers>>

\* another goroutine reads the tree; with the lock held around every access
\* it gets to read only between two calls
DoRead ==
    /\ locking => walk.phase = "idle"
    /\ seen' = [nodes |-> nodes, walk |-> walk]
    /\ seen' # seen
    /\ UNCHANGED <<tree, hist, commits, gateway, walk, locking, peers>>

InitWalk ==
    /\ \E p \in Populations : nodes = Populate(p, InitNodes)
    /\ nextID = InitNodes + 1
    /\ hist = <<>>
    /\ base = nodes
    /\ commits = <<>>
    /\ cfg = [auth |-> TRUE] /\ userDb = <<>> /\ sess = NoSession
    /\ walk = Idle /\ seen = NotSeen
    /\ locking \in BOOLEAN
    /\ remotes = {} /\ conns = <<>>

NextWalk ==
    \/ DoBeginAdd
    \/ DoBeginRemoveChild
    \/ DoVisitSize
    \/ DoVisitHash
    \/ DoVisitChildren
    \/ DoUpNext
    \/ DoRead

SpecWalk == InitWalk /\ [][NextWalk]_vars

\* a call followed write by write ends as the call taken in one step does
StepwiseAgrees ==
    (walk.phase = "idle" /\ walk.op \in {"Add", "RemoveChild"}) =>
        [nodes |-> nodes, res |-> walk.res, visited |-> walk.visited]
            \in (IF walk.op = "Add" THEN Add(walk.from, walk.d, walk.nd)
                 ELSE RemoveChild(walk.from, walk.d, walk.nd))

TypeOK ==
    /\ nextID \in Nat
    /\ Len(hist) <= (IF nodes = <<>> THEN MaxCommitSteps ELSE MaxSteps)
    /\ cfg.auth \in BOOLEAN /\ DOMAIN userDb \subseteq Users
    /\ Len(nodes) <= MaxNodes
    /\ \A i \in DOMAIN nodes : nodes[i].size \in 0 .. (SizeMod - 1) /\ nodes[i].hash \in Digests

\* ------------------------------------------------------------ notions of the claims
Range(q) == {q[i] : i \in DOMAIN q}

\* x has no parent: a nil parent pointer or the empty parent digest
IsRoot(H, x) == H[x].parent.tag = "nil" \/ Deref(H, H[x].parent) = EmptyHash

\* the Directory the store resolves x's parent digest to
ParentOf(H, x) == DirectoryByHash(H, Deref(H, H[x].parent))

\* the directories from x up to the root; a 0 marks a parent that does not
\* resolve (or a chain longer than the heap, which is a cycle)
RECURSIVE PathFrom(_, _, _)
PathFrom(H, x, n) ==
    IF IsRoot(H, x) THEN <<x>>
    ELSE IF n = 0 \/ ParentOf(H, x).err # "ok" THEN <<x, 0>>
    ELSE <<x>> \o PathFrom(H, ParentOf(H, x).node, n - 1)

PathToRoot(H, d) == PathFrom(H, d, Len(H))

\* every ancestor of d resolves through the store, up to a root
Resolvable(H, d) == 0 \notin Range(PathToRoot(H, d))

\* the record the factory makes: no parent, no children map, size 0
FreshlyCreated(H, d) ==
    H[d] = Directory(H[d].id, H[d].name, 0, 0, NilRef, H[d].hash, NilMap)

IsMutation(op) == op.op \in {"Add", "RemoveChild"}

\* the size a directory has after one Add / RemoveChild of a node of size sz
Applied(op, size, sz) ==
    IF op.op = "Add" THEN (size + sz) % SizeMod ELSE (size - sz) % SizeMod

\* ------------------------------------------------------------ C1
\* C1: Add(F) on a Directory freshly created by the factory succeeds and
\* leaves children[F.name] = F.digest, the size increased by F.size and the
\* digest combined with F.digest; RemoveChild(F) right after it returns the
\* size and the digest to their values before the Add.
C1_AddToFreshDirectory ==
    [][ LET op == last'
            d  == op.d
            nd == op.nd
        IN  /\ (op.op = "Add" /\ FreshlyCreated(nodes, d) /\ nd # d) =>
                  /\ op.res = "ok"
                  /\ nodes[nd].name \in DOMAIN nodes'[d].children.map
                  /\ ChildDigest(nodes', d, nodes[nd].name) = nodes[nd].hash
                  /\ nodes'[d].size = (nodes[d].size + nodes[nd].size) % SizeMod
                  /\ nodes'[d].hash = Xor(nodes[d].hash, nodes[nd].hash)
            /\ (/\ op.op = "RemoveChild" /\ op.res = "ok"
                /\ Len(hist) = 1 /\ last.op = "Add" /\ last.res = "ok"
                /\ last.d = d /\ last.nd = nd /\ FreshlyCreated(base, d)) =>
                  /\ nodes'[d].size = base[d].size
                  /\ nodes'[d].hash = base[d].hash
      ]_vars

\* ------------------------------------------------------------ C2
\* C2: when every ancestor of d resolves through the store, one successful
\* d.Add(nd) or d.RemoveChild(nd) applies the size delta and the digest fold
\* exactly once to every directory from d up to and including the root.
C2_EveryAncestorOnce ==
    [][ LET op   == last'
            d    == op.d
            nd   == op.nd
            path == PathToRoot(nodes, d)
        IN  (/\ IsMutation(op) /\ op.res = "ok"
             /\ Resolvable(nodes, d) /\ nd \notin Range(path)) =>
                \A x \in Range(path) :
                    /\ nodes'[x].size = Applied(op, nodes[x].size, nodes[nd].size)
                    /\ nodes'[x].hash = Xor(nodes[x].hash, nodes[nd].hash)
      ]_vars

\* ------------------------------------------------------------ C5
\* C5: RemoveChild(nd) on a Directory with no entry named nd.Name() returns
\* NoSuchFile and changes nothing: no children map, size, digest or parent
\* reference of any object.
C5_RemoveAbsentEntry ==
    [][ LET op == last'
        IN  (/\ op.op = "RemoveChild"
             /\ nodes[op.nd].name \notin DOMAIN nodes[op.d].children.map) =>
                (op.res = "NoSuchFile" /\ nodes' = nodes)
      ]_vars

\* a RemoveChild of an absent name on a directory that has another child and
\* a parent, given a node that has a parent reference to lose
C5_Witness ==
    /\ last.op = "RemoveChild" /\ last.res = "NoSuchFile"
    /\ nodes[last.d].children.map # <<>>
    /\ nodes[last.d].parent.tag # "nil"
    /\ nodes[last.nd].parent.tag = "ptr"

\* ------------------------------------------------------------ C3
\* the node an entry of a children map stands for (0: none)
ChildNode(H, r) == IF r.tag = "ptr" THEN r.v ELSE NodeByHash(H, r.v).node

RECURSIVE SumSizes(_, _, _)
SumSizes(H, m, S) ==
    IF S = {} THEN 0
    ELSE LET n == CHOOSE x \in S : TRUE
             c == ChildNode(H, m[n])
         IN  (IF c = 0 THEN 0 ELSE H[c].size) + SumSizes(H, m, S \ {n})

SizesOK(H) ==
    \A d \in Dirs(H) :
        H[d].size = SumSizes(H, H[d].children.map, DOMAIN H[d].children.map) % SizeMod

\* C3: after a successful Add / RemoveChild on a tree whose sizes were right,
\* every Directory's size is again the sum of the sizes of its children.
C3_SizeIsSumOfChildren ==
    [][ (IsMutation(last') /\ last'.res = "ok" /\ SizesOK(nodes)) => SizesOK(nodes') ]_vars

\* ------------------------------------------------------------ C4
\* every operation so far was a successful Add / RemoveChild on d
SequenceOn(d) ==
    /\ hist # <<>>
    /\ \A i \in DOMAIN hist :
          IsMutation(hist[i]) /\ hist[i].res = "ok" /\ hist[i].d = d /\ hist[i].nd # d

\* C4: after a sequence of successful Add / RemoveChild on a Directory that
\* nets to the children it started with, the digest and the size of the
\* Directory and of every ancestor are what they were before the sequence.
C4_NetZeroSequence ==
    \A d \in Dirs(base) :
        (/\ SequenceOn(d)
         /\ Resolvable(base, d)
         /\ nodes[d].children = base[d].children) =>
            \A x \in Range(PathToRoot(base, d)) :
                nodes[x].size = base[x].size /\ nodes[x].hash = base[x].hash

\* ------------------------------------------------------------ C6
Count(q, x) == Cardinality({i \in DOMAIN q : q[i] = x})

RECURSIVE XorTimes(_, _, _)
XorTimes(h, g, k) == IF k = 0 THEN h ELSE XorTimes(Xor(h, g), g, k - 1)

RECURSIVE ApplyTimes(_, _, _, _)
ApplyTimes(op, size, sz, k) ==
    IF k = 0 THEN size ELSE ApplyTimes(op, Applied(op, size, sz), sz, k - 1)

WalkFailed(op) == IsMutation(op) /\ op.res \in {"StoreLookupFailed", "TypeMismatch"}

\* C6: when a lookup fails during the upward walk of Add / RemoveChild, the
\* operation returns the error of that lookup (it is a lookup that still
\* fails at the last directory visited), the change of the children map and
\* the update of every directory visited so far stay, once per visit, and no
\* directory beyond the failure is touched.
C6_FailedWalkKeepsMutations ==
    [][ LET op    == last'
            d     == op.d
            nd    == op.nd
            vis   == op.visited
            lastv == vis[Len(vis)]
            n     == nodes[nd].name
        IN  WalkFailed(op) =>
              /\ vis # <<>> /\ vis[1] = d
              /\ \/ nodes'[lastv].parent.tag # "nil"
                      /\ ParentOf(nodes', lastv).err = op.res
                 \/ \E c \in DOMAIN nodes'[lastv].children.map :
                      DirectoryByHash(nodes', ChildDigest(nodes', lastv, c)).err = op.res
              /\ IF op.op = "Add"
                 THEN n \in DOMAIN nodes'[d].children.map
                      /\ nodes'[d].children.map[n] = PtrRef(nd)
                 ELSE n \notin DOMAIN nodes'[d].children.map
              /\ \A x \in DOMAIN nodes :
                    /\ nodes'[x].size =
                          ApplyTimes(op, nodes[x].size, nodes[nd].size, Count(vis, x))
                    /\ nd \notin Range(vis) =>
                          nodes'[x].hash =
                             XorTimes(nodes[x].hash, nodes[nd].hash, Count(vis, x))
      ]_vars

\* an Add that folded a digest into two different directories and then failed to resolve a parent digest that is not the empty one
C6_Witness ==
    /\ last.op = "Add" /\ last.res = "StoreLookupFailed"
    /\ Len(last.visited) = 2 /\ last.visited[1] # last.visited[2]
    /\ nodes[last.nd].hash # EmptyHash
    /\ \A i \in DOMAIN hist :
          /\ hist[i].nd \notin Range(hist[i].visited)
          /\ \A x \in Range(hist[i].visited) : Count(hist[i].visited, x) = 1
    /\ LET lastv == last.visited[Len(last.visited)]
       IN  nodes[lastv].parent.tag # "nil" /\ Deref(nodes, nodes[lastv].parent) # EmptyHash

\* ------------------------------------------------------------ C7
\* C7: with every ancestor resolvable, d.Up(visit) with a visit that never
\* fails returns no error after visiting d and each ancestor once, child
\* before parent, the root last.
C7_UpVisitsPathToRoot ==
    (last.op = "Up" /\ Resolvable(nodes, last.d)) =>
        (last.res = "ok" /\ last.visited = PathToRoot(nodes, last.d))

\* ------------------------------------------------------------ C8
\* C8: after a successful Add / RemoveChild every child of a Directory whose
\* digest the walk changed records that Directory's new digest as its parent
\* digest, and File children do not make the operation fail.
C8_ChildrenFollowParentDigest ==
    [][ LET op == last'
        IN  /\ (IsMutation(op) /\ op.res = "ok") =>
                \A p \in Dirs(nodes) :
                    nodes'[p].hash # nodes[p].hash =>
                        \A n \in DOMAIN nodes'[p].children.map :
                            LET c == ChildNode(nodes', nodes'[p].children.map[n])
                            IN  /\ c # 0
                                /\ nodes'[c].parent.tag # "nil"
                                /\ Deref(nodes', nodes'[c].parent) = nodes'[p].hash
            /\ (IsMutation(op) /\ Resolvable(nodes, op.d)) => op.res # "TypeMismatch"
      ]_vars

\* ------------------------------------------------------------ C9, C10
\* the nodes the store resolves the children of x to (0: one does not resolve)
Kids(H, x) ==
    IF H[x].kind # "dir" THEN {}
    ELSE {NodeByHash(H, ChildDigest(H, x, n)).node : n \in DOMAIN H[x].children.map}

RECURSIVE Closure(_, _, _)
Closure(H, S, n) ==
    IF n = 0 THEN S
    ELSE Closure(H, S \cup UNION {Kids(H, x) : x \in S \ {0}}, n - 1)

Subtree(H, x)     == Closure(H, {x}, Len(H))
Descendants(H, x) == Closure(H, Kids(H, x), Len(H))

\* the nodes below x form a finite tree: all resolve, none is its own
\* descendant, none is reached twice
IsTree(H, x) ==
    LET T == Subtree(H, x)
    IN  /\ 0 \notin T
        /\ \A y \in T : y \notin Descendants(H, y)
        /\ \A y \in T : Cardinality({p \in T : y \in Kids(H, p)}) <= 1
        /\ \A p \in T : H[p].kind = "dir" => Cardinality(Kids(H, p)) = NChildren(H, p)

Position(q, x) == CHOOSE i \in DOMAIN q : q[i] = x

\* C9: Walk over a finite tree with a visit that never fails returns no
\* error and visits every node of the subtree exactly once.
C9_WalkVisitsEveryNodeOnce ==
    (last.op = "Walk" /\ IsTree(nodes, last.d)) =>
        /\ last.res = "ok"
        /\ Range(last.visited) = Subtree(nodes, last.d)
        /\ Len(last.visited) = Cardinality(Subtree(nodes, last.d))

\* C10: Walk visits every Directory of the subtree; without dfs before any
\* of its descendants, with dfs after them.
C10_WalkOrder ==
    (last.op = "Walk" /\ last.res = "ok" /\ IsTree(nodes, last.d)) =>
        \A x \in Subtree(nodes, last.d) :
            nodes[x].kind = "dir" =>
                /\ x \in Range(last.visited)
                /\ \A y \in Descendants(nodes, x) \cap Range(last.visited) :
                      IF last.dfs
                      THEN Position(last.visited, y) < Position(last.visited, x)
                      ELSE Position(last.visited, x) < Position(last.visited, y)

\* ------------------------------------------------------------ C11
\* the node reached from x by following the components path[i ..] through
\* the children maps (0: a component is missing or does not resolve)
RECURSIVE Follow(_, _, _, _)
Follow(H, x, path, i) ==
    IF i > Len(path) THEN x
    ELSE IF H[x].kind # "dir" \/ path[i] \notin DOMAIN H[x].children.map THEN 0
    ELSE LET c == ChildNode(H, H[x].children.map[path[i]])
         IN  IF c = 0 THEN 0 ELSE Follow(H, c, path, i + 1)

\* C11: Child(name) returns the node recorded under name, and nil without
\* an error when there is no such entry; Lookup(path) returns the node that
\* following the components through the children maps ends at, and nil
\* without an error when a component is missing.
C11_ChildAndLookup ==
    /\ last.op = "Child" =>
          (last.res = "ok" /\ last.nd = Follow(nodes, last.d, last.path, 1))
    /\ (last.op = "Lookup" /\ last.path # <<>>) =>
          (last.res = "ok" /\ last.nd = Follow(nodes, last.d, last.path, 1))

\* ------------------------------------------------------------ C12
\* the parent digest of x, the nil parent counting as the empty digest
ParentDigest(H, x) == IF H[x].parent.tag = "nil" THEN EmptyHash ELSE Deref(H, H[x].parent)

\* C12: for every Directory the factory and Add / RemoveChild can lead to,
\* decoding the message ToProto makes of it succeeds and reproduces id,
\* name, size, digest, parent digest and the children map, name by name.
C12_RoundTrip ==
    last.op = "RoundTrip" =>
        LET d   == nodes[last.d]
            out == last.out
        IN  /\ last.res = "ok"
            /\ out.id = d.id /\ out.name = d.name /\ out.size = d.size
            /\ out.hash = d.hash
            /\ out.parent.tag # "nil"
            /\ out.parent.v = ParentDigest(nodes, last.d)
            /\ DOMAIN out.children.map = DOMAIN d.children.map
            /\ \A n \in DOMAIN d.children.map :
                  out.children.map[n].v = ChildDigest(nodes, last.d, n)

\* ------------------------------------------------------------ C13
\* C13: FromProto of a message with a readable modification time returns
\* MalformedInput when, and only when, the message has not as many names as
\* links, and never fails on an index out of range.
C13_MalformedInput ==
    (last.op = "FromProto" /\ last.msg.timeOK) =>
        /\ last.res # "panic"
        /\ last.res = "MalformedInput" <=> Len(last.msg.names) # Len(last.msg.links)

C15_BoxOnce ==
    [][ /\ \A c \in DOMAIN commits :
              commits[c].boxed =>
                  /\ commits'[c].boxed
                  /\ commits'[c].author = commits[c].author
                  /\ commits'[c].message = commits[c].message
        /\ last'.op = "BoxCommit" =>
              LET c == last'.d
              IN  IF commits[c].boxed
                  THEN last'.res = "AlreadyBoxed" /\ commits' = commits
                  ELSE /\ last'.res = "ok"
                       /\ commits'[c].boxed
                       /\ commits'[c].author = last'.args[1]
                       /\ commits'[c].message = last'.args[2]
      ]_vars

\* a second BoxCommit, with another author and message, was refused
C15_Witness ==
    /\ last.op = "BoxCommit" /\ last.res = "AlreadyBoxed"
    /\ commits[last.d].author # last.args[1]
    /\ commits[last.d].message # last.args[2]

\* ------------------------------------------------------------ C16
\* C16: after SetMergeMarker(with, head) MergeMarker() returns (with, head),
\* whatever marker was set before and whether the commit is boxed or not;
\* nothing else of the commit changes, the same call again changes nothing,
\* and no other operation changes the marker.
C16_OneMergeMarker ==
    [][ IF last'.op = "SetMergeMarker"
        THEN LET c == last'.d
             IN  /\ MergeMarker(commits'[c]) = <<last'.args[1], last'.args[2]>>
                 /\ commits' = [commits EXCEPT ![c].marker = commits'[c].marker]
                 /\ MergeMarker(commits[c]) = <<last'.args[1], last'.args[2]>> =>
                        commits' = commits
        ELSE \A c \in DOMAIN commits : MergeMarker(commits'[c]) = MergeMarker(commits[c])
      ]_vars

\* a boxed commit whose marker was replaced by one with another author and
\* another remote head
C16_Witness ==
    /\ last.op = "SetMergeMarker" /\ commits[last.d].boxed
    /\ \E i \in DOMAIN hist :
          /\ hist[i].op = "SetMergeMarker" /\ hist[i].d = last.d
          /\ hist[i].args[1] # last.args[1] /\ hist[i].args[2] # last.args[2]

\* ------------------------------------------------------------ C18
\* the commits on the parent chain of c, c excluded
RECURSIVE CommitAncestors(_, _, _)
CommitAncestors(C, c, n) ==
    LET p == CommitByHash(C, C[c].parent)
    IN  IF n = 0 \/ p = 0 THEN {} ELSE {p} \cup CommitAncestors(C, p, n - 1)

C17_FactoryRegisters ==
    [][ LET op == last'
            P  == op.d
            N  == op.nd
        IN  (op.op = "newEmptyDirectory" /\ op.res = "ok") =>
              IF P = 0
              THEN /\ ParentDigest(nodes', N) = EmptyHash
                   /\ IsRoot(nodes', N)
              ELSE /\ nodes'[N].name \in DOMAIN nodes'[P].children.map
                   /\ ChildDigest(nodes', P, nodes'[N].name) = nodes'[N].hash
                   /\ nodes'[N].parent.tag # "nil"
                   /\ ParentOf(nodes', N) = [err |-> "ok", node |-> P]
                   /\ Resolvable(nodes, P) =>
                         \A x \in Range(PathToRoot(nodes, P)) :
                            /\ nodes'[x].hash = Xor(nodes[x].hash, nodes'[N].hash)
                            /\ nodes'[x].size = (nodes[x].size + nodes'[N].size) % SizeMod
      ]_vars

\* ------------------------------------------------------------ C20
\* C20: Add(B) on a Directory that has a child under B's name already (and
\* that the walk does not come back to) keeps the names of the children
\* map, records B's digest under the name, and adds B's size and folds B's
\* digest on top of what the Directory had: nothing of the old child is
\* taken out.
C20_AddOverwrites ==
    [][ LET op == last'
            d  == op.d
            B  == op.nd
            n  == nodes[B].name
        IN  (/\ op.op = "Add"
             /\ n \in DOMAIN nodes[d].children.map
             /\ B \notin Range(op.visited) /\ Count(op.visited, d) <= 1) =>
                /\ DOMAIN nodes'[d].children.map = DOMAIN nodes[d].children.map
                /\ ChildDigest(nodes', d, n) = nodes'[B].hash
                /\ nodes'[d].size = (nodes[d].size + nodes[B].size) % SizeMod
                /\ nodes'[d].hash = Xor(nodes[d].hash, nodes[B].hash)
      ]_vars

\* a successful Add over a child of the same name that is another node,
\* added before, with a digest that still counts in the Directory's
C20_Witness ==
    /\ last.op = "Add" /\ last.res = "ok"
    /\ last.nd \notin Range(last.visited) /\ Count(last.visited, last.d) = 1
    /\ nodes[last.nd].hash # EmptyHash
    /\ \E i \in 1 .. (Len(hist) - 1) :
          /\ hist[i].op = "Add" /\ hist[i].res = "ok" /\ hist[i].d = last.d
          /\ hist[i].nd # last.nd /\ nodes[hist[i].nd].name = nodes[last.nd].name
          /\ nodes[hist[i].nd].hash # EmptyHash
          /\ nodes[last.d].hash =
                Xor(Xor(base[last.d].hash, nodes[hist[i].nd].hash), nodes[last.nd].hash)

\* ------------------------------------------------------------ C19
\* the session carries, as a string, the name of a user of the database
ValidSession(s, db) ==
    /\ s.err = "ok"
    /\ "name" \in DOMAIN s.values
    /\ s.values["name"].str
    /\ s.values["name"].v \in DOMAIN db

C21_RemoveChildEffect ==
    [][ LET op   == last'
            d    == op.d
            nd   == op.nd
            n    == nodes[nd].name
            m    == nodes[d].children.map
            path == PathToRoot(nodes, d)
        IN  (/\ op.op = "RemoveChild" /\ op.res = "ok"
             /\ Resolvable(nodes, d) /\ nd \notin Range(path)) =>
                /\ DOMAIN nodes'[d].children.map = (DOMAIN m) \ {n}
                /\ NChildren(nodes', d) = NChildren(nodes, d) - 1
                /\ \A x \in (DOMAIN m) \ {n} : nodes'[d].children.map[x] = m[x]
                /\ nodes'[nd].parent.tag # "nil"
                /\ Deref(nodes', nodes'[nd].parent) = EmptyHash
                /\ \A x \in Range(path) :
                      /\ nodes'[x].size = (nodes[x].size - nodes[nd].size) % SizeMod
                      /\ nodes'[x].hash = Xor(nodes[x].hash, nodes[nd].hash)
      ]_vars

\* ------------------------------------------------------------ C22
\* what a reader found, set against the heap the call started from: a
\* Directory of the path whose size changed and whose digest did not, or a
\* Directory whose digest changed below an ancestor whose digest did not
Torn(S, w) ==
    LET H0   == w.from
        path == PathToRoot(H0, w.d)
        sized(x)  == S[x].size # H0[x].size
        hashed(x) == S[x].hash # H0[x].hash
    IN  \/ \E x \in Range(path) : sized(x) /\ ~hashed(x)
        \/ \E i, j \in DOMAIN path : i < j /\ hashed(path[i]) /\ ~hashed(path[j])

\* the reads the claim is about: of a call on a Directory all of whose
\* ancestors resolve, the node being none of them and its digest not empty
ReadOf(w) ==
    /\ w.op \in {"Add", "RemoveChild"}
    /\ Resolvable(w.from, w.d)
    /\ w.nd \notin Range(PathToRoot(w.from, w.d))
    /\ w.from[w.nd].hash # EmptyHash

\* a reader that runs between the writes of a walk finds a torn state
C22_TornStateObserved ==
    /\ ~locking
    /\ seen # NotSeen /\ seen.walk.phase # "idle"
    /\ ReadOf(seen.walk)
    /\ Torn(seen.nodes, seen.walk)

\* C22: with every Add / RemoveChild run to completion before any other
\* access (the lock held), a reader finds no torn state: after a call that
\* succeeded no Directory of the path has its size changed without its
\* digest, and none is updated below an ancestor that is not.
C22_NoTornStateUnderSingleWriter ==
    (/\ locking
     /\ seen # NotSeen
     /\ ReadOf(seen.walk)
     /\ seen.walk.res = "ok") => ~Torn(seen.nodes, seen.walk)

\* ------------------------------------------------------------ C23
\* the handshake of a connection succeeds: own key at hand, handshake run
\* through, remote list read and the remote's key in it
Authenticated(c) ==
    /\ c.ownKeyOK /\ c.hsOK /\ c.listOK
    /\ PubKeyID(c.key) \in remotes

\* C23: RPC is served on a connection only after its authentication
\* succeeded; a connection whose remote's key is in no entry of the remote
\* list, or whose own-key retrieval or handshake fails, is dropped with no
\* call served.
C23_RpcOnlyAfterAuth ==
    \A i \in DOMAIN conns :
        /\ (conns[i].pc \in {"serving", "closed"} \/ conns[i].served > 0)
                => Authenticated(conns[i])
        /\ (conns[i].pc # "accepted" /\ ~Authenticated(conns[i]))
                => conns[i].pc = "dropped" /\ conns[i].served = 0

C23_Witness ==
    \E i, j \in DOMAIN conns :
        /\ conns[i].served > 0 /\ Authenticated(conns[i])
        /\ conns[j].pc = "dropped"
        /\ conns[j].ownKeyOK /\ conns[j].hsOK /\ conns[j].listOK
        /\ PubKeyID(conns[j].key) \notin remotes

\* ------------------------------------------------------------ C24
\* the login request names a user the database holds under exactly that
\* name, with that user's password, and the password check does not fail
GoodLogin(db, req, fault) ==
    /\ ~req.bad
    /\ req.username # "" /\ req.password # ""
    /\ req.username \in DOMAIN db
    /\ db[req.username].name = req.username
    /\ fault # "check"
    /\ db[req.username].password = req.password

\* the request carries a name and a password, and they are not accepted
CredentialFailure(db, req, fault) ==
    /\ ~req.bad
    /\ req.username # "" /\ req.password # ""
    /\ ~GoodLogin(db, req, fault)

\* C24: LoginHandler stores a session name only for a request with a
\* non-empty username and password whose user is in the database under
\* exactly that name and whose password check succeeds without error, and
\* the name stored is that name; every other request leaves the session as it
\* was, and every credential failure is answered by the one response 403
\* "bad credentials".
C24_LoginStoresOnlyChecked ==
    [][ LET op == last'  req == op.args[1]  fault == op.args[2]
        IN  op.op = "Login" =>
              /\ ~GoodLogin(userDb, req, fault) => sess' = sess
              /\ sess' # sess => sess' = Named(req.username)
              /\ CredentialFailure(userDb, req, fault) =>
                    op.w = <<[code |-> 403, text |-> "bad credentials"]>>
      ]_vars

C24_Witness ==
    \E i, j \in DOMAIN hist :
        /\ i < j /\ j = Len(hist)
        /\ hist[i].op = "Login" /\ Status(hist[i].w) = 403
        /\ hist[i].args[1].username \in DOMAIN userDb
        /\ userDb[hist[i].args[1].username].name # hist[i].args[1].username
        /\ hist[i].args[1].password = "secret" /\ hist[i].args[2] = "none"
        /\ hist[j].op = "Login" /\ Status(hist[j].w) = 200
        /\ sess = Named(hist[j].args[1].username)

\* ------------------------------------------------------------ C25
\* the user of the most recent successful login that no successful logout
\* followed, among the first n requests; "" when there is none
RECURSIVE CurrentUser(_, _)
CurrentUser(h, n) ==
    IF n = 0 THEN ""
    ELSE IF h[n].op = "Login" /\ Status(h[n].w) = 200 THEN h[n].args[1].username
    ELSE IF h[n].op = "Logout" /\ Status(h[n].w) = 200 THEN ""
    ELSE CurrentUser(h, n - 1)

\* the client kept to the cookie the gateway gave it
OneSession(h) == \A i \in DOMAIN h : h[i].op # "BadCookie"

\* the user a whoami response names; is_logged_in is whether it is not empty
WhoamiUser(w) == w[Len(w)].text

EntryOK(H, d, n) ==
    LET r == H[d].children.map[n]
    IN  IF r.tag = "ptr"
        THEN H[r.v].name = n /\ H[r.v].hash = ChildDigest(H, d, n)
        ELSE \E j \in DOMAIN H : H[j].name = n /\ H[j].hash = ChildDigest(H, d, n)

LinksOK(H) == \A d \in Dirs(H) : \A n \in DOMAIN H[d].children.map : EntryOK(H, d, n)

\* the entries of the store's view: the store resolves the digest held to a
\* node named n
LinksResolve(H) ==
    \A d \in Dirs(H) : \A n \in DOMAIN H[d].children.map :
        LET r == NodeByHash(H, ChildDigest(H, d, n))
        IN  r.err = "ok" /\ H[r.node].name = n

\* C26: after any completed Add / RemoveChild every entry of every
\* children map identifies a node whose name is the key and whose current
\* digest is the digest the entry holds, also the entries for directories
\* whose digest a walk changed.
C26_ChildLinksFollow ==
    IsMutation(last) => LinksOK(nodes)

\* a Directory of the start is a child and a walk has changed its digest
C26_Witness ==
    /\ IsMutation(last) /\ last.res = "ok"
    /\ \E p \in Dirs(nodes), x \in Dirs(base) : \E n \in DOMAIN nodes[p].children.map :
          /\ nodes[p].children.map[n] = PtrRef(x)
          /\ nodes[x].hash # base[x].hash
          /\ nodes[x].hash # EmptyHash

\* a successful Add / RemoveChild keeps the entries resolving in the store
C26_SuccessKeepsResolving ==
    [][ (IsMutation(last') /\ last'.res = "ok" /\ LinksResolve(nodes)) => LinksResolve(nodes') ]_vars

\* ------------------------------------------------------------ C27
\* C27: the size never wraps around: in every successful RemoveChild(nd)
\* the size of nd is no larger than the size of the directory and of every
\* ancestor it is subtracted from, also when nd only shares its name with
\* the child recorded.
C27_SizeNeverWraps ==
    [][ LET op == last'
        IN  (op.op = "RemoveChild" /\ op.res = "ok") =>
                \A x \in Range(op.visited) : nodes[op.nd].size <= nodes[x].size
      ]_vars

====
